---- MODULE Spec2Model ----
(***************************************************************************)
(* Kokoro TTS HTTP service (services/kokoro/server.py).                    *)
(*                                                                         *)
(* Three Flask routes: GET /health, GET /voices, POST /synthesize.  Each   *)
(* request is handled by one server thread; the locals of the handler are  *)
(* functions of the thread.  The synthesize handler is followed statement  *)
(* group by statement group (validate, kokoro.create, encode, respond);    *)
(* the whole body sits in one try/except that turns every exception into   *)
(* a 500 response carrying str(e).                                         *)
(*                                                                         *)
(* Numbers.  A float is modelled by an exact rational on a grid: audio     *)
(* samples are multiples of 1/SampleDenom (the sample k stands for         *)
(* k/SampleDenom), speeds are counted in tenths (10 stands for 1.0), and   *)
(* the duration is a reduced fraction.  The float32 product s * 32767 is   *)
(* exact for the grid values used when SampleDenom is a power of two; for  *)
(* the other grids the model is that of the real-number product.           *)
(***************************************************************************)
EXTENDS Integers, Sequences, FiniteSets, TLC

\* ---------------------------------------------------------------- bounds
NumThreads == 2      \* server threads (requests in flight at once)
MaxLen == 2          \* longest audio buffer the engine returns
SampleDenom == 4     \* samples are k/SampleDenom

Threads == 1..NumThreads

\* ------------------------------------------------------- program constants
DEFAULT_SPEED == 10                 \* 1.0, in tenths
DefaultVoiceInit == "af_bella"
VoiceMapInit ==
    << <<"af_bella", "af_bella">>, <<"af_nicole", "af_nicole">>,
       <<"af_sarah", "af_sarah">>, <<"af_sky", "af_sky">>,
       <<"am_adam", "am_adam">>, <<"am_michael", "am_michael">>,
       <<"bf_emma", "bf_emma">>, <<"bf_isabella", "bf_isabella">>,
       <<"bm", "bm">> >>
Scale == 32767                      \* audio * 32767
Int16Min == -32768
Int16Max == 32767
NChannels == 1                      \* setnchannels(1)
SampWidth == 2                      \* setsampwidth(2)
FrameRateMax == 2147483647          \* largest frame rate whose byte rate
                                    \* 2 * rate still fits the header's '<L'

\* --------------------------------------------------------- python values
\* A JSON / Python value: its type, and its string or numeric content.
PV(t, str, num) == [type |-> t, s |-> str, n |-> num]
Absent == PV("absent", "", 0)       \* the key is not in the object
JNull == PV("null", "", 0)
JTrue == PV("bool", "", 1)
JStr(x) == PV("string", x, 0)
JNum(k) == PV("number", "", k)      \* k in tenths
JList == PV("list", "", 0)          \* a JSON array (unhashable)

\* The decimal strings the requests use, with the number each denotes.
Numerals == ("1.5" :> 15) @@ ("2" :> 20)

\* str(x) of a value, as the f-string of line 71 formats it
PyStr(v) ==
    CASE v.type = "string" -> v.s
      [] v.type = "null" -> "None"
      [] v.type = "bool" -> "True"
      [] v.type = "number" -> "<number>"
      [] OTHER -> "[]"

\* ------------------------------------------------------------- dict access
Keys(m) == {m[i][1] : i \in DOMAIN m}
KeyList(m) == [i \in DOMAIN m |-> m[i][1]]
Lookup(m, k) == m[CHOOSE i \in DOMAIN m : m[i][1] = k][2]

\* ------------------------------------------------------------- arithmetic
Abs(x) == IF x < 0 THEN -x ELSE x
Sign(x) == IF x < 0 THEN -1 ELSE IF x > 0 THEN 1 ELSE 0
RECURSIVE GCD(_, _)
GCD(a, b) == IF b = 0 THEN a ELSE GCD(b, a % b)

\* ------------------------------------------------------------------ state
VARIABLES
    VOICE_MAP,      \* module global: list of (key, value), insertion order
    DEFAULT_VOICE,  \* module global
    pc,             \* per thread: position of the handler
    request,        \* per thread: the HTTP request being handled
    text,           \* per thread: local `text`
    voice,          \* per thread: local `voice`
    speed,          \* per thread: local `speed` (tenths)
    calls,          \* per thread: the kokoro.create calls of this request
    audio,          \* per thread: local `audio` (sample numerators)
    sample_rate,    \* per thread: local `sample_rate`
    audio_int16,    \* per thread: local `audio_int16`
    wav_buffer,     \* per thread: contents of `wav_buffer`
    e,              \* per thread: the exception the except clause caught
    response        \* per thread: the response returned

globals == <<VOICE_MAP, DEFAULT_VOICE>>
locals == <<text, voice, speed, audio, sample_rate, audio_int16, wav_buffer>>
vars == <<VOICE_MAP, DEFAULT_VOICE, pc, request, text, voice, speed, calls,
          audio, sample_rate, audio_int16, wav_buffer, e, response>>

\* ------------------------------------------------------- requests, bodies
\* The body of a POST: what request.get_json() is given.  `kind` is the
\* JSON value's shape; an object carries its three fields.
Body(k, t, v, s) == [kind |-> k, text |-> t, voice |-> v, speed |-> s]
NoBody == Body("none", Absent, Absent, Absent)
Plain(k) == Body(k, Absent, Absent, Absent)
Req(r, b) == [route |-> r, body |-> b]
NoRequest == Req("", NoBody)

NonObjectKinds ==
    { "unparseable",        \* malformed (or empty) body sent as JSON
      "no_json_mimetype",   \* body without a JSON content type
      "null", "false", "zero", "emptystr", "emptylist",
      "true", "number",     \* true, 5
      "str", "str_text",    \* "abc", "some text"
      "list", "list_text" } \* [1], ["text"]

TextValues == {Absent, JStr(""), JStr("Hello world"), JNum(50)}
VoiceValues == {Absent, JStr("af_nicole"), JStr("bm"), JStr("bogus"),
                JNull, JList}
SpeedValues == {Absent, JNum(5), JStr("1.5"), JTrue, JStr("fast"), JNull}

Bodies ==
    {Plain(k) : k \in NonObjectKinds}
    \cup {Body("object", t, v, s) :
             t \in TextValues, v \in VoiceValues, s \in SpeedValues}

Requests(bodies) ==
    {Req("/health", NoBody), Req("/voices", NoBody)}
    \cup {Req("/synthesize", b) : b \in bodies}

\* ------------------------------------------------------------- responses
Frac(a, b) == [num |-> a \div GCD(a, b), den |-> b \div GCD(a, b)]
NoHeaders == [present |-> FALSE, XAudioDuration |-> Frac(0, 1), XSampleRate |-> 0]
NoWav == [nchannels |-> 0, sampwidth |-> 0, framerate |-> 0, byterate |-> 0,
          blockalign |-> 0, bits |-> 0, datalength |-> 0, frames |-> <<>>]
NoResponse == [status |-> 0, mimetype |-> "", json |-> <<>>, body |-> NoWav,
               headers |-> NoHeaders]

\* jsonify(obj), status
jsonify(obj, status) ==
    [status |-> status, mimetype |-> "application/json", json |-> obj,
     body |-> NoWav, headers |-> NoHeaders]

\* send_file(wav_buffer, mimetype='audio/wav') plus the two headers
send_file(wav, dur, rate) ==
    [status |-> 200, mimetype |-> "audio/wav", json |-> <<>>, body |-> wav,
     headers |-> [present |-> TRUE, XAudioDuration |-> dur, XSampleRate |-> rate]]

\* An exception: the statement group that raised it and str(e)
Exc(w, m) == [where |-> w, msg |-> m]
NoExc == Exc("", "")

\* ------------------------------------------------- synthesize: validation
\* request.get_json() (line 60): the outcomes Flask can produce.  A body
\* that does not parse raises BadRequest; a body without a JSON content
\* type yields None (older Flask) or raises UnsupportedMediaType (newer).
GotJson(d) == [raised |-> FALSE, msg |-> "", data |-> d]
JsonRaised(m) == [raised |-> TRUE, msg |-> m, data |-> NoBody]
get_json(body) ==
    CASE body.kind = "unparseable" ->
           {JsonRaised("400 Bad Request: Failed to decode JSON object")}
      [] body.kind = "no_json_mimetype" ->
           {GotJson(Plain("null")),
            JsonRaised("415 Unsupported Media Type: Did not attempt to load JSON data")}
      [] OTHER -> {GotJson(body)}

\* `not data` (line 62)
Falsy(data) ==
    \/ data.kind \in {"null", "false", "zero", "emptystr", "emptylist"}
    \/ data.kind = "object" /\ data.text = Absent /\ data.voice = Absent
                            /\ data.speed = Absent

\* (a check that lets an object without `text` through)
HasText_any(data) == TRUE

\* 'text' in data, for a JSON object (line 62)
HasText(data) == data.text # Absent

\* float(x) (line 67)
FloatOk(x) == [ok |-> TRUE, val |-> x, msg |-> ""]
FloatErr(m) == [ok |-> FALSE, val |-> 0, msg |-> m]
float(v) ==
    CASE v.type = "number" -> FloatOk(v.n)
      [] v.type = "bool" -> FloatOk(v.n * 10)
      [] v.type = "string" ->
           IF v.s \in DOMAIN Numerals THEN FloatOk(Numerals[v.s])
           ELSE FloatErr("could not convert string to float: " \o v.s)
      [] v.type = "null" ->
           FloatErr("float() argument must be a string or a real number, not 'NoneType'")
      [] OTHER ->
           FloatErr("float() argument must be a string or a real number, not 'list'")

\* (the default voice used whatever the request asks for)
GetVoice_ignore(data, dvoice) == JStr(dvoice)

\* data.get('voice', DEFAULT_VOICE) (line 66)
GetVoice(data, dvoice) == IF data.voice = Absent THEN JStr(dvoice) ELSE data.voice

\* data.get('speed', DEFAULT_SPEED) (line 67)
GetSpeed(data) == IF data.speed = Absent THEN JNum(DEFAULT_SPEED) ELSE data.speed

\* The result of lines 62-71 on `data`: a return, a raise, or falling
\* through to the synthesis call with the three locals set.
Return400(m) == [exit |-> "return", status |-> 400, msg |-> m,
                 text |-> Absent, voice |-> Absent, speed |-> 0]
Raise(m) == [exit |-> "raise", status |-> 500, msg |-> m,
             text |-> Absent, voice |-> Absent, speed |-> 0]
Pass(t, v, s) == [exit |-> "pass", status |-> 0, msg |-> "",
                  text |-> t, voice |-> v, speed |-> s]

Validate(data, vmap, dvoice) ==
    IF Falsy(data) THEN Return400("Missing required field: text")
    ELSE IF data.kind = "true" THEN Raise("argument of type 'bool' is not iterable")
    ELSE IF data.kind = "number" THEN Raise("argument of type 'int' is not iterable")
    ELSE IF data.kind \in {"str", "list"} THEN Return400("Missing required field: text")
    ELSE IF data.kind = "str_text" THEN Raise("string indices must be integers, not 'str'")
    ELSE IF data.kind = "list_text" THEN Raise("list indices must be integers or slices, not str")
    ELSE IF ~HasText(data) THEN Return400("Missing required field: text")
    ELSE
      LET t == data.text
          v == GetVoice(data, dvoice)
          f == float(GetSpeed(data))
      IN  IF ~f.ok THEN Raise(f.msg)
          ELSE IF v.type = "list" THEN Raise("unhashable type: 'list'")
          ELSE IF ~(v.type = "string" /\ v.s \in Keys(vmap))
               THEN Return400("Invalid voice: " \o PyStr(v))
          ELSE Pass(t, v, f.val)

\* ---------------------------------------------------- synthesize: encoding
\* One sample of (audio * 32767).astype(np.int16) (line 81): the product is
\* truncated toward zero; a value outside int16 is undefined behaviour of
\* the C cast, which the build resolves by wrapping or by saturating.
Product_32768(k) == k * 32768      \* (scaling by 2^15 instead of 2^15 - 1)
Product(k) == k * Scale
Trunc(k) == Sign(k) * (Abs(Product(k)) \div SampleDenom)
Wrap16(x) == ((x - Int16Min) % 65536) + Int16Min
Saturate16(x) == IF x > Int16Max THEN Int16Max ELSE IF x < Int16Min THEN Int16Min ELSE x
astype_int16(k) ==
    IF Trunc(k) \in Int16Min..Int16Max THEN {Trunc(k)}
    ELSE {Wrap16(Trunc(k)), Saturate16(Trunc(k))}

\* The arrays the cast of a whole buffer can produce
RECURSIVE ArrayAsInt16(_)
ArrayAsInt16(a) ==
    IF a = <<>> THEN {<<>>}
    ELSE {<<h>> \o r : h \in astype_int16(Head(a)), r \in ArrayAsInt16(Tail(a))}

\* (the two bytes of a sample written high byte first)
RECURSIVE tobytes_be(_)
tobytes_be(a) ==
    IF a = <<>> THEN <<>>
    ELSE LET u == Head(a) % 65536
         IN  <<u \div 256, u % 256>> \o tobytes_be(Tail(a))

\* audio_int16.tobytes() / writeframes (line 89): two bytes per sample,
\* little-endian two's complement
RECURSIVE tobytes(_)
tobytes(a) ==
    IF a = <<>> THEN <<>>
    ELSE LET u == Head(a) % 65536
         IN  <<u % 256, u \div 256>> \o tobytes(Tail(a))

\* The WAV file wave.open(..., 'wb') leaves in wav_buffer (lines 84-89)
WavFile(rate, bytes) ==
    [nchannels |-> NChannels, sampwidth |-> SampWidth, framerate |-> rate,
     byterate |-> NChannels * rate * SampWidth,
     blockalign |-> NChannels * SampWidth, bits |-> SampWidth * 8,
     datalength |-> Len(bytes), frames |-> bytes]

\* (the duration taken from the byte count instead of the sample count)
Duration_bytes(a, rate) == Frac(SampWidth * Len(a), rate)

\* duration = len(audio) / sample_rate (line 94)
Duration(a, rate) == Frac(Len(a), rate)

\* ------------------------------------------------------ the engine (kokoro)
\* kokoro.create(text, voice=..., speed=...) is external: for any arguments
\* it returns some (audio, sample_rate) or raises some exception.
Created(a, r) == [raised |-> FALSE, msg |-> "", audio |-> a, sample_rate |-> r]
CreateRaised(m) == [raised |-> TRUE, msg |-> m, audio |-> <<>>, sample_rate |-> 0]

Samples == -(SampleDenom + 1)..(SampleDenom + 1)   \* -1.25 .. 1.25 on the grid
Audios == UNION {[1..n -> Samples] : n \in 0..MaxLen}
Rates == {0, 1, 24000}
Messages == {"", "ONNXRuntimeError"}
Outcomes ==
    {Created(a, r) : a \in Audios, r \in Rates}
    \cup {CreateRaised(m) : m \in Messages}

\* The argument record of one kokoro.create call (lines 74-78)
Call(t, v, s) == [text |-> t, voice |-> v, speed |-> s]

\* ------------------------------------------------------------------- Init
Init ==
    /\ VOICE_MAP = VoiceMapInit
    /\ DEFAULT_VOICE = DefaultVoiceInit
    /\ pc = [t \in Threads |-> "idle"]
    /\ request = [t \in Threads |-> NoRequest]
    /\ text = [t \in Threads |-> Absent]
    /\ voice = [t \in Threads |-> Absent]
    /\ speed = [t \in Threads |-> 0]
    /\ calls = [t \in Threads |-> <<>>]
    /\ audio = [t \in Threads |-> <<>>]
    /\ sample_rate = [t \in Threads |-> 0]
    /\ audio_int16 = [t \in Threads |-> <<>>]
    /\ wav_buffer = [t \in Threads |-> NoWav]
    /\ e = [t \in Threads |-> NoExc]
    /\ response = [t \in Threads |-> NoResponse]

\* ---------------------------------------------------------------- actions
\* The server hands a new request to the idle thread t.
Receive(t, bodies) ==
    /\ pc[t] = "idle"
    /\ \E r \in Requests(bodies) : request' = [request EXCEPT ![t] = r]
    /\ pc' = [pc EXCEPT ![t] = "received"]
    /\ UNCHANGED <<globals, locals, calls, e, response>>

\* The response has been sent: the handler's frame is gone and the thread
\* is free again.
Finish(t) ==
    /\ pc[t] = "done"
    /\ pc' = [pc EXCEPT ![t] = "idle"]
    /\ request' = [request EXCEPT ![t] = NoRequest]
    /\ text' = [text EXCEPT ![t] = Absent]
    /\ voice' = [voice EXCEPT ![t] = Absent]
    /\ speed' = [speed EXCEPT ![t] = 0]
    /\ calls' = [calls EXCEPT ![t] = <<>>]
    /\ audio' = [audio EXCEPT ![t] = <<>>]
    /\ sample_rate' = [sample_rate EXCEPT ![t] = 0]
    /\ audio_int16' = [audio_int16 EXCEPT ![t] = <<>>]
    /\ wav_buffer' = [wav_buffer EXCEPT ![t] = NoWav]
    /\ e' = [e EXCEPT ![t] = NoExc]
    /\ response' = [response EXCEPT ![t] = NoResponse]
    /\ UNCHANGED globals

\* def health() (lines 41-44)
health(t) ==
    /\ pc[t] = "received"
    /\ request[t].route = "/health"
    /\ response' = [response EXCEPT
                      ![t] = jsonify([status |-> "ok", service |-> "kokoro-tts"], 200)]
    /\ pc' = [pc EXCEPT ![t] = "done"]
    /\ UNCHANGED <<globals, request, locals, calls, e>>

\* def voices() (lines 114-120)
voices(t) ==
    /\ pc[t] = "received"
    /\ request[t].route = "/voices"
    /\ response' = [response EXCEPT
                      ![t] = jsonify([voices |-> KeyList(VOICE_MAP),
                                      default |-> DEFAULT_VOICE], 200)]
    /\ pc' = [pc EXCEPT ![t] = "done"]
    /\ UNCHANGED <<globals, request, locals, calls, e>>

\* raise inside the try block: control goes to the except clause
Throw(t, where, msg) ==
    /\ pc' = [pc EXCEPT ![t] = "except"]
    /\ e' = [e EXCEPT ![t] = Exc(where, msg)]

\* synthesize(), lines 60-71: parse and validate.  What the step does to
\* the thread; the module globals are not assigned.
ValidateStep(t) ==
    /\ pc[t] = "received"
    /\ request[t].route = "/synthesize"
    /\ \E g \in get_json(request[t].body) :
         LET r == IF g.raised THEN Raise(g.msg)
                  ELSE Validate(g.data, VOICE_MAP, DEFAULT_VOICE)
         IN  /\ text' = [text EXCEPT ![t] = r.text]
             /\ voice' = [voice EXCEPT ![t] = r.voice]
             /\ speed' = [speed EXCEPT ![t] = r.speed]
             /\ CASE r.exit = "pass" ->
                       /\ pc' = [pc EXCEPT ![t] = "create"]
                       /\ UNCHANGED <<e, response>>
                  [] r.exit = "return" ->
                       /\ pc' = [pc EXCEPT ![t] = "done"]
                       /\ response' = [response EXCEPT
                                         ![t] = jsonify([error |-> r.msg], r.status)]
                       /\ UNCHANGED e
                  [] OTHER ->
                       /\ Throw(t, "validate", r.msg)
                       /\ UNCHANGED response
    /\ UNCHANGED <<request, calls, audio, sample_rate, audio_int16, wav_buffer>>

\* (a handler that remembers the last voice used as the new default)
synthesize_validate_remember(t) ==
    /\ ValidateStep(t)
    /\ VOICE_MAP' = VOICE_MAP
    /\ DEFAULT_VOICE' = IF voice'[t].type = "string" THEN voice'[t].s
                        ELSE DEFAULT_VOICE

synthesize_validate(t) ==
    /\ ValidateStep(t)
    /\ UNCHANGED globals

\* (a handler that calls the engine again after a failure)
synthesize_create_retry(t, outcomes) ==
    /\ pc[t] = "create"
    /\ calls' = [calls EXCEPT
                   ![t] = Append(@, Call(text[t], Lookup(VOICE_MAP, voice[t].s),
                                         speed[t]))]
    /\ \E o \in outcomes :
         IF o.raised
         THEN /\ IF Len(calls[t]) = 0
                 THEN pc' = pc /\ e' = e
                 ELSE Throw(t, "create", o.msg)
              /\ UNCHANGED <<audio, sample_rate>>
         ELSE /\ pc' = [pc EXCEPT ![t] = "encode"]
              /\ audio' = [audio EXCEPT ![t] = o.audio]
              /\ sample_rate' = [sample_rate EXCEPT ![t] = o.sample_rate]
              /\ UNCHANGED e
    /\ UNCHANGED <<globals, request, text, voice, speed, audio_int16, wav_buffer,
                   response>>

\* synthesize(), lines 74-78: the one call of the engine
synthesize_create(t, outcomes) ==
    /\ pc[t] = "create"
    /\ calls' = [calls EXCEPT
                   ![t] = Append(@, Call(text[t], Lookup(VOICE_MAP, voice[t].s),
                                         speed[t]))]
    /\ \E o \in outcomes :
         IF o.raised
         THEN /\ Throw(t, "create", o.msg)
              /\ UNCHANGED <<audio, sample_rate>>
         ELSE /\ pc' = [pc EXCEPT ![t] = "encode"]
              /\ audio' = [audio EXCEPT ![t] = o.audio]
              /\ sample_rate' = [sample_rate EXCEPT ![t] = o.sample_rate]
              /\ UNCHANGED e
    /\ UNCHANGED <<globals, request, text, voice, speed, audio_int16, wav_buffer,
                   response>>

\* synthesize(), lines 81-91: int16 conversion and the WAV file.
\* setframerate rejects a rate <= 0; the exception that leaves the `with`
\* block is then the one close() raises for the header it cannot write.
\* A rate above FrameRateMax does not fit the header (struct.error).
synthesize_encode(t) ==
    /\ pc[t] = "encode"
    /\ \E a16 \in ArrayAsInt16(audio[t]) :
         /\ audio_int16' = [audio_int16 EXCEPT ![t] = a16]
         /\ IF sample_rate[t] <= 0
            THEN /\ Throw(t, "encode", "sampling rate not specified")
                 /\ UNCHANGED wav_buffer
            ELSE IF sample_rate[t] > FrameRateMax
            THEN /\ Throw(t, "encode", "'L' format requires 0 <= number <= 4294967295")
                 /\ UNCHANGED wav_buffer
            ELSE /\ pc' = [pc EXCEPT ![t] = "respond"]
                 /\ wav_buffer' = [wav_buffer EXCEPT
                                     ![t] = WavFile(sample_rate[t], tobytes(a16))]
                 /\ UNCHANGED e
    /\ UNCHANGED <<globals, request, text, voice, speed, calls, audio, sample_rate,
                   response>>

\* synthesize(), lines 94-106: duration, send_file, the two headers
synthesize_respond(t) ==
    /\ pc[t] = "respond"
    /\ IF sample_rate[t] = 0
       THEN /\ Throw(t, "respond", "division by zero")
            /\ UNCHANGED response
       ELSE /\ response' = [response EXCEPT
                              ![t] = send_file(wav_buffer[t],
                                               Duration(audio[t], sample_rate[t]),
                                               sample_rate[t])]
            /\ pc' = [pc EXCEPT ![t] = "done"]
            /\ UNCHANGED e
    /\ UNCHANGED <<globals, request, locals, calls>>

\* synthesize(), lines 108-112: except Exception as e
synthesize_except(t) ==
    /\ pc[t] = "except"
    /\ response' = [response EXCEPT ![t] = jsonify([error |-> e[t].msg], 500)]
    /\ pc' = [pc EXCEPT ![t] = "done"]
    /\ UNCHANGED <<globals, request, locals, calls, e>>

\* ---------------------------------------------------------- specifications
\* One request at a time, on thread 1, over the full input sets.
Next ==
    \/ Receive(1, Bodies)
    \/ health(1)
    \/ voices(1)
    \/ synthesize_validate(1)
    \/ synthesize_create(1, Outcomes)
    \/ synthesize_encode(1)
    \/ synthesize_respond(1)
    \/ synthesize_except(1)
    \/ Finish(1)

Spec == Init /\ [][Next]_vars

\* Thread per request: every thread handles requests, the steps of the
\* handlers interleaved, over one input of each kind.
SmallBodies ==
    { Plain("unparseable"), Plain("number"),
      Body("object", Absent, JStr("bm"), Absent),
      Body("object", JStr("Hello world"), Absent, Absent),
      Body("object", JStr("Hello world"), JStr("bm"), JNum(5)),
      Body("object", JStr("Hello world"), JStr("bogus"), Absent),
      Body("object", JStr("Hello world"), JStr("bm"), JStr("fast")) }
SmallOutcomes ==
    { CreateRaised(""), Created(<<SampleDenom, -1>>, 24000), Created(<<>>, 0) }

NextConcurrent ==
    \E t \in Threads :
        \/ Receive(t, SmallBodies)
        \/ health(t)
        \/ voices(t)
        \/ synthesize_validate(t)
        \/ synthesize_create(t, SmallOutcomes)
        \/ synthesize_encode(t)
        \/ synthesize_respond(t)
        \/ synthesize_except(t)
        \/ Finish(t)

SpecConcurrent == Init /\ [][NextConcurrent]_vars

\* ================================================================ properties
Synth(t) == request[t].route = "/synthesize"
Answered(t) == pc[t] = "done"
IsError(r, code) ==
    /\ r.status = code
    /\ r.mimetype = "application/json"
    /\ "error" \in DOMAIN r.json
IsWav(r) == r.status = 200 /\ r.mimetype = "audio/wav"
FixedVoices == {"af_bella", "af_nicole", "af_sarah", "af_sky", "am_adam",
                "am_michael", "bf_emma", "bf_isabella", "bm"}
\* the request carries no `text` field: no JSON object, or one without it
MissingText(b) == b.kind # "object" \/ b.text = Absent
\* the engine returned for this request (the call was made and did not raise)
EngineReturned(t) == Len(calls[t]) = 1 /\ pc[t] # "create" /\ e[t].where # "create"
InRange(k) == k \in -SampleDenom..SampleDenom
AllInRange(a) == \A i \in DOMAIN a : InRange(a[i])

\* C1 (as claimed): every answered POST /synthesize without a `text` field
\* -- empty body, body that is no JSON object, body that does not parse --
\* has status 400 and a JSON body with an `error` field.
C1_MissingTextIs400 ==
    \A t \in Threads :
        Answered(t) /\ Synth(t) /\ MissingText(request[t].body)
            => IsError(response[t], 400)

\* C2 (as claimed): every answered POST /synthesize whose `voice` is present
\* and is not one of the nine identifiers has status 400, whatever `speed`.
C2_InvalidVoiceIs400 ==
    \A t \in Threads :
        LET b == request[t].body
        IN  /\ Answered(t) /\ Synth(t) /\ b.kind = "object"
            /\ b.voice # Absent
            /\ ~(b.voice.type = "string" /\ b.voice.s \in FixedVoices)
            => response[t].status = 400

\* C3 (as claimed): when kokoro.create raised, the response has status 500
\* and a non-empty `error` string, whatever the exception's message.
C3_EngineFailureNonEmptyError ==
    \A t \in Threads :
        Answered(t) /\ e[t].where = "create"
            => IsError(response[t], 500) /\ response[t].json.error # ""

\* C4: every kokoro.create call gets the request's text unchanged, the
\* request's voice or "af_bella" when absent, and the request's speed (the
\* number it denotes) or 1.0 when absent.
Denoted(v) ==
    CASE v.type = "number" -> v.n
      [] v.type = "bool" -> 10 * v.n
      [] OTHER -> Numerals[v.s]
C4_CallArguments ==
    \A t \in Threads : \A i \in DOMAIN calls[t] :
        LET c == calls[t][i]
            b == request[t].body
        IN  /\ c.text = b.text
            /\ c.voice = IF b.voice = Absent THEN "af_bella" ELSE b.voice.s
            /\ c.speed = IF b.speed = Absent THEN 10 ELSE Denoted(b.speed)
C4_Witness ==
    \E t \in Threads :
        /\ Len(calls[t]) = 1
        /\ request[t].body.voice = Absent
        /\ request[t].body.speed = Absent
        /\ calls[t][1] = Call(JStr("Hello world"), "af_bella", 10)

\* C5: no handler changes the voice set or the default voice, and every
\* answer of GET /voices lists exactly the nine identifiers and the default
\* "af_bella", whatever other requests ran before or run at the same time.
C5_VoicesFixed ==
    /\ Keys(VOICE_MAP) = FixedVoices
    /\ Len(VOICE_MAP) = 9
    /\ DEFAULT_VOICE = "af_bella"
    /\ \A t \in Threads :
         Answered(t) /\ request[t].route = "/voices"
            => /\ response[t].status = 200
               /\ response[t].mimetype = "application/json"
               /\ Len(response[t].json.voices) = 9
               /\ {response[t].json.voices[i] : i \in 1..9} = FixedVoices
               /\ response[t].json.default = "af_bella"
C5_Witness ==
    \E t, u \in Threads :
        /\ Answered(t) /\ request[t].route = "/voices"
        /\ Synth(u) /\ pc[u] = "encode"
        /\ calls[u][1].voice = "bm"

\* C6: a WAV body returned for samples all within [-1, 1] decodes to mono
\* 16-bit PCM at the engine's sample rate, with as many frames as samples,
\* each decoded value less than one step away from 32767 times its sample.
DecodedFrame(w, i) ==
    LET u == w.frames[2 * i - 1] + 256 * w.frames[2 * i]
    IN  IF u >= 32768 THEN u - 65536 ELSE u
DecodedCount(w) == w.datalength \div (w.nchannels * w.sampwidth)
C6_RoundTrip ==
    \A t \in Threads :
        IsWav(response[t]) /\ AllInRange(audio[t])
            => LET w == response[t].body
               IN  /\ w.nchannels = 1
                   /\ w.sampwidth = 2 /\ w.bits = 16 /\ w.blockalign = 2
                   /\ w.framerate = sample_rate[t]
                   /\ w.byterate = 2 * sample_rate[t]
                   /\ w.datalength = Len(w.frames)
                   /\ DecodedCount(w) = Len(audio[t])
                   /\ \A i \in DOMAIN audio[t] :
                        Abs(DecodedFrame(w, i) * SampleDenom - audio[t][i] * 32767)
                            < SampleDenom
C6_Witness ==
    \E t \in Threads :
        /\ IsWav(response[t]) /\ AllInRange(audio[t])
        /\ Len(audio[t]) = MaxLen
        /\ \E i \in DOMAIN audio[t] :
             /\ audio[t][i] < 0
             /\ (audio[t][i] * 32767) % SampleDenom # 0
             /\ DecodedFrame(response[t].body, i) < 0

\* C7 (as claimed): whatever length and sample rate the engine returned, the
\* answer is a 200 whose X-Audio-Duration is sample_count / sample_rate and
\* whose X-Sample-Rate is the engine's rate.
DurationHeaderOk(t) ==
    LET h == response[t].headers
    IN  /\ IsWav(response[t])
        /\ h.present
        /\ h.XAudioDuration.den > 0
        /\ h.XAudioDuration.num * sample_rate[t] = h.XAudioDuration.den * Len(audio[t])
        /\ h.XSampleRate = sample_rate[t]
C7_AnyRateSucceeds ==
    \A t \in Threads :
        Answered(t) /\ EngineReturned(t) => DurationHeaderOk(t)
\* C7 (amended): the same for every length and every sample rate from 1 to
\* the largest the WAV header can carry.
C7_PositiveRateSucceeds ==
    \A t \in Threads :
        Answered(t) /\ EngineReturned(t) /\ sample_rate[t] \in 1..FrameRateMax
            => DurationHeaderOk(t)
C7_Witness ==
    \E t \in Threads :
        /\ Answered(t) /\ EngineReturned(t)
        /\ sample_rate[t] = 24000 /\ Len(audio[t]) = MaxLen
        /\ response[t].headers.XAudioDuration = [num |-> MaxLen \div GCD(MaxLen, 24000),
                                                 den |-> 24000 \div GCD(MaxLen, 24000)]

\* C8: per request the engine is called at most once, only after validation
\* passed, never for a request answered 400; a 200 with a WAV body comes
\* only after that request's call and then its encoding.
C8_StateOrder ==
    \A t \in Threads :
        /\ Len(calls[t]) <= 1
        /\ pc[t] \in {"idle", "received"} => calls[t] = <<>>
        /\ calls[t] # <<>> =>
              /\ Synth(t)
              /\ text[t] # Absent
              /\ voice[t].type = "string" /\ voice[t].s \in FixedVoices
        /\ response[t].status = 400 => calls[t] = <<>>
        /\ IsWav(response[t]) =>
              /\ Len(calls[t]) = 1
              /\ Len(audio_int16[t]) = Len(audio[t])
              /\ wav_buffer[t] # NoWav
              /\ response[t].body = wav_buffer[t]
C8_StepOrder ==
    \A t \in Threads :
        /\ calls'[t] # calls[t] /\ calls'[t] # <<>> => pc[t] = "create" /\ calls[t] = <<>>
        /\ pc'[t] = "create" => pc[t] \in {"received", "create"}
        /\ pc'[t] = "encode" => pc[t] \in {"create", "encode"}
        /\ pc'[t] = "respond" => pc[t] \in {"encode", "respond"}
        /\ IsWav(response'[t]) /\ ~IsWav(response[t]) => pc[t] = "respond"
\* C8: the request lifecycle -- C8_StateOrder in every state, C8_StepOrder
\* on every step: at most one engine call per request, after validation,
\* none for a 400, and a 200 WAV only after the call and the encoding.
C8_Lifecycle == [](C8_StateOrder) /\ [][C8_StepOrder]_vars
C8_Witness ==
    \E t, u \in Threads :
        /\ t # u
        /\ Answered(t) /\ IsWav(response[t]) /\ Len(calls[t]) = 1
        /\ Answered(u) /\ response[u].status = 400 /\ Synth(u)

\* C9 (as claimed): every text passed to kokoro.create is a non-empty string.
C9_TextNonEmptyString ==
    \A t \in Threads : \A i \in DOMAIN calls[t] :
        calls[t][i].text.type = "string" /\ calls[t][i].text.s # ""
\* C9 (amended): every text passed to kokoro.create is the value of the
\* `text` field the request carries; a request without `text` never reaches
\* the call, whereas an empty or non-string text is passed on as it is.
C9_TextIsRequestField ==
    \A t \in Threads : \A i \in DOMAIN calls[t] :
        /\ request[t].body.kind = "object"
        /\ request[t].body.text # Absent
        /\ calls[t][i].text = request[t].body.text
        /\ text[t] = request[t].body.text
C9_Witness ==
    \E t \in Threads :
        /\ Len(calls[t]) = 1
        /\ request[t].body.text = JStr("")
        /\ calls[t][1].text = JStr("")

\* C10: every sample within [-1, 1], +1.0 and -1.0 included, is converted to
\* its product with 32767 truncated toward zero, which lies in
\* [-32767, 32767]: nothing wraps, and a non-zero result has its input's sign.
C10_NoWrap ==
    \A t \in Threads : \A i \in DOMAIN audio_int16[t] :
        InRange(audio[t][i]) =>
            LET k == audio[t][i]
                v == audio_int16[t][i]
            IN  /\ v \in -32767..32767
                /\ v # 0 => Sign(v) = Sign(k)
                /\ Abs(v) * SampleDenom <= Abs(k) * 32767
                /\ Abs(k) * 32767 < (Abs(v) + 1) * SampleDenom
C10_Witness ==
    \E t \in Threads :
        /\ Len(audio_int16[t]) = 2
        /\ audio[t] = <<SampleDenom, -SampleDenom>>
        /\ audio_int16[t] = <<32767, -32767>>

====
